---- MODULE Spec2Model ----
(***************************************************************************)
(* Model of units.py: the abstract Unit, the Soldier and the Vehicle.      *)
(*                                                                         *)
(* One Vehicle (unit 0) crewed by NumOps Soldiers (units 1..NumOps) is     *)
(* driven by an external caller that may call attack, get_damage,          *)
(* is_ready and success on the vehicle and directly on every operator.     *)
(*                                                                         *)
(* Numbers are exact: healths and damage values are integers chosen so     *)
(* that value / 100 * 60, value / 100 * 20 and the split of the second     *)
(* 20% over the remaining operators are whole numbers (for these values    *)
(* the Python float results are exactly the same whole numbers).  Scores   *)
(* are kept as numerators over a fixed denominator:                        *)
(*   attack payload  = ret / 100                                           *)
(*   Soldier.success = ret / 20000                                         *)
(* Vehicle.success (a geometric mean of the operators' scores) is not      *)
(* modelled: it assigns nothing and no property below reads it.            *)
(***************************************************************************)
EXTENDS Integers, Sequences, FiniteSets

\* ---------------------------------------------------------------- bounds
NumOps == 3
MaxCalls == 2

Ops == 1..NumOps
Units == 0..NumOps

\* the clock values the driver passes as now (it need not be monotonic)
Times == {0, 1}

\* damage values handed to get_damage by the driver (never validated)
DamageValues == {-30, 0, 30}

\* constructor arguments of a Soldier: health, recharge, experience
SoldierArgs ==
  { [health |-> 100, recharge |-> 1, experience |-> -1],
    [health |-> 6,   recharge |-> 0, experience |-> 49],
    [health |-> 0,   recharge |-> 2, experience |-> 51] }

SoldierKind(a) ==
  IF a.health = 100 THEN 1 ELSE IF a.health = 6 THEN 2 ELSE 3

\* the crews a Vehicle is built with.  No method reads the position of an
\* operator in the list (choice is uniform, the sum and the filter are
\* order-free), so crews are listed up to the order of their operators.
Crews ==
  {crew \in [Ops -> SoldierArgs] :
     \A i \in Ops : \A j \in Ops : i <= j => SoldierKind(crew[i]) <= SoldierKind(crew[j])}

\* constructor arguments of a Vehicle: health, recharge
VehicleArgs ==
  { [health |-> 100, recharge |-> 1],
    [health |-> 18,  recharge |-> 2],
    [health |-> 0,   recharge |-> 0],
    [health |-> -30, recharge |-> 1] }

\* ------------------------------------------------------------------ state
VARIABLES
  init_health,    \* Unit._init_health, per unit
  health,         \* Unit._health, per unit
  recharge,       \* Unit.recharge, per unit
  last_attack,    \* Unit._last_attack, per unit
  experience,     \* Soldier._experience, per operator
  recent_attack,  \* history: argument of the most recent attack call, 0 if none
  last,           \* the most recent call: name, receiver, argument, result, random
                  \* draws; given: the experience arguments of the constructors
  calls           \* number of calls made by the driver

vars == <<init_health, health, recharge, last_attack, experience,
          recent_attack, last, calls>>

unitVars == <<init_health, health, recharge, last_attack, experience>>

\* -------------------------------------------------------------- Unit
\* health.setter: store, clamp to _init_health from above, then to 0 from below
HealthSetterNoUpper(init, value) ==
  IF value < 0 THEN 0 ELSE value

HealthSetter(init, value) ==
  LET stored == value
      upper  == IF stored > init THEN init ELSE stored
  IN  IF upper < 0 THEN 0 ELSE upper

IsReadyStrict(u, now) ==
  now - last_attack[u] > recharge[u]

is_ready(u, now) ==
  now - last_attack[u] >= recharge[u]

\* -------------------------------------------------------------- Soldier
ExperienceSetterNoUpper(value) ==
  IF value < 0 THEN 0 ELSE value

ExperienceSetter(value) ==
  LET stored == value
      upper  == IF stored > 50 THEN 50 ELSE stored
  IN  IF upper < 0 THEN 0 ELSE upper

\* Soldier.get_damage: self._health -= value, on the stored field
SoldierDamagedClamped(i, h, value) ==
  HealthSetter(init_health[i], h - value)

SoldierHealed(i, h, value) ==
  h + value

SoldierDamaged(i, h, value) ==
  h - value

SoldierIsActive(i) ==
  health[i] > 0

\* random_.randint(a, b): any integer of a..b
RandInt(a, b) == a..b

\* the draws of randint the model follows: both ends of the range
DrawsOf(i) ==
  {d \in {50 + experience[i], 100} : d \in RandInt(50 + experience[i], 100)}

\* 0.5 * (1 + health / 100) * d / 100, as a numerator over 20000
SuccessOfInitHealth(i, d) ==
  IF init_health[i] = 0 THEN 0
  ELSE ((init_health[i] + health[i]) * d * 100) \div init_health[i]

SuccessNum(i, d) ==
  (100 + health[i]) * d

\* -------------------------------------------------------------- Vehicle
VehicleIsActiveEither ==
  health[0] > 0 \/ \E i \in Ops : SoldierIsActive(i)

VehicleIsActive ==
  health[0] > 0 /\ \E i \in Ops : SoldierIsActive(i)

is_active(u) ==
  IF u = 0 THEN VehicleIsActive ELSE SoldierIsActive(u)

AllOperators == Ops

\* alive_operators = [o for o in self.operators if o.is_active]
AliveOperators == {i \in Ops : SoldierIsActive(i)}

\* value / 100 * 60 and value / 100 * 20
Percent(value, p) == (value * p) \div 100

Max(a, b) == IF a >= b THEN a ELSE b

RestShareWhole(percent_20, n) == percent_20

\* percent_20 / max(len(rest_operators), 1)
RestShare(percent_20, n) == percent_20 \div Max(n, 1)

\* ------------------------------------------------------------ construction
Init ==
  \E v \in VehicleArgs : \E crew \in Crews :
    LET arg(u) == IF u = 0 THEN v ELSE crew[u] IN
    /\ init_health = [u \in Units |-> arg(u).health]
    /\ health = [u \in Units |-> HealthSetter(arg(u).health, arg(u).health)]
    /\ recharge = [u \in Units |-> arg(u).recharge]
    /\ last_attack = [u \in Units |-> 0]
    /\ experience = [i \in Ops |-> ExperienceSetter(crew[i].experience)]
    /\ recent_attack = [u \in Units |-> 0]
    /\ last = [op |-> "__init__", unit |-> 0, arg |-> 0, ret |-> 0,
               drawn |-> <<>>, given |-> [i \in Ops |-> crew[i].experience]]
    /\ calls = 0

Call(op, u, a, r, d) ==
  /\ calls < MaxCalls
  /\ calls' = calls + 1
  /\ last' = [op |-> op, unit |-> u, arg |-> a, ret |-> r, drawn |-> d,
              given |-> last.given]

\* ------------------------------------------------------------ operations
\* Unit.is_ready(now)
IsReady(u, now) ==
  /\ Call("is_ready", u, now, is_ready(u, now), <<>>)
  /\ UNCHANGED <<unitVars, recent_attack>>

\* Soldier.success (a property read that draws from the random source)
Success(i, d) ==
  /\ Call("success", i, 0, SuccessNum(i, d), <<d>>)
  /\ UNCHANGED <<unitVars, recent_attack>>

SoldierAttackPost(i, now) ==
  /\ Call("attack", i, now, 5 + ExperienceSetter(experience[i] + 1), <<>>)
  /\ last_attack' = [last_attack EXCEPT ![i] = now]
  /\ experience' = [experience EXCEPT ![i] = ExperienceSetter(experience[i] + 1)]
  /\ recent_attack' = [recent_attack EXCEPT ![i] = now]
  /\ UNCHANGED <<init_health, health, recharge>>

\* Soldier.attack(now)
SoldierAttack(i, now) ==
  LET current_experience == experience[i] IN
  /\ Call("attack", i, now, 5 + current_experience, <<>>)
  /\ last_attack' = [last_attack EXCEPT ![i] = now]
  /\ experience' = [experience EXCEPT ![i] = ExperienceSetter(experience[i] + 1)]
  /\ recent_attack' = [recent_attack EXCEPT ![i] = now]
  /\ UNCHANGED <<init_health, health, recharge>>

\* Soldier.get_damage(value), called by the driver
SoldierGetDamage(i, value) ==
  /\ Call("get_damage", i, value, 0, <<>>)
  /\ health' = [health EXCEPT ![i] = SoldierDamaged(i, health[i], value)]
  /\ UNCHANGED <<init_health, recharge, last_attack, experience, recent_attack>>

\* sum(o.experience for o in self.operators)
SumExperience ==
  LET S[n \in 0..NumOps] == IF n = 0 THEN 0 ELSE S[n - 1] + experience[n]
  IN  S[NumOps]

VehicleAttackIfReady(now) ==
  /\ Call("attack", 0, now, 10 + SumExperience, <<>>)
  /\ last_attack' = IF is_ready(0, now)
                    THEN [last_attack EXCEPT ![0] = now] ELSE last_attack
  /\ recent_attack' = [recent_attack EXCEPT ![0] = now]
  /\ UNCHANGED <<init_health, health, recharge, experience>>

\* Vehicle.attack(now)
VehicleAttack(now) ==
  /\ Call("attack", 0, now, 10 + SumExperience, <<>>)
  /\ last_attack' = [last_attack EXCEPT ![0] = now]
  /\ recent_attack' = [recent_attack EXCEPT ![0] = now]
  /\ UNCHANGED <<init_health, health, recharge, experience>>

\* what random_.choice(alive_operators) can return; NoOperator when
\* alive_operators is empty and the random source is not asked
NoOperator == 0

Choices ==
  IF AliveOperators = {} THEN {NoOperator} ELSE AliveOperators

\* Vehicle.get_damage(value), random_o being the operator the random source picks
VehicleGetDamage(value, random_o) ==
  LET percent_60 == Percent(value, 60)
      percent_20 == Percent(value, 20)
      alive_operators == AliveOperators
      rest_operators == IF alive_operators # {}
                        THEN alive_operators \ {random_o} ELSE {}
      share == RestShare(percent_20, Cardinality(rest_operators))
  IN
  /\ Call("get_damage", 0, value, 0,
          IF alive_operators # {} THEN <<random_o>> ELSE <<>>)
  /\ health' = [u \in Units |->
       IF u = 0 THEN HealthSetter(init_health[0], health[0] - percent_60)
       ELSE IF alive_operators # {} /\ u = random_o
            THEN SoldierDamaged(u, health[u], percent_20)
       ELSE IF u \in rest_operators THEN SoldierDamaged(u, health[u], share)
       ELSE health[u]]
  /\ UNCHANGED <<init_health, recharge, last_attack, experience, recent_attack>>

Next ==
  \/ \E u \in Units, now \in Times : IsReady(u, now)
  \/ \E i \in Ops : \E d \in DrawsOf(i) : Success(i, d)
  \/ \E i \in Ops, now \in Times : SoldierAttack(i, now)
  \/ \E i \in Ops, value \in DamageValues : SoldierGetDamage(i, value)
  \/ \E now \in Times : VehicleAttack(now)
  \/ \E value \in DamageValues : \E random_o \in Choices :
       VehicleGetDamage(value, random_o)

Spec == Init /\ [][Next]_vars

\* ------------------------------------------------------------- properties
IsCall(op, u) == last.op = op /\ last.unit = u

Alive == {i \in Ops : health[i] > 0}

\* the value of [0, init] nearest to x (0 when the interval is empty)
Clamped(x, init) ==
  IF x < 0 \/ init < 0 THEN 0 ELSE IF x > init THEN init ELSE x

\* C1 as stated: 0 <= health <= initial health after every assignment through
\* the health setter, for every numeric initial health: for every unit right
\* after construction, and for the hull of the Vehicle in every state.
C1_HealthWithinInitialAnyInit ==
  /\ last.op = "__init__" =>
       \A u \in Units : 0 <= health[u] /\ health[u] <= init_health[u]
  /\ 0 <= health[0] /\ health[0] <= init_health[0]

\* C1 amended: for every unit built with a non-negative initial health,
\* 0 <= health <= initial health holds after every assignment through the
\* health setter (every unit right after construction, the hull in every
\* state); a unit built with a negative initial health has health 0 there.
C1_HealthWithinInitial ==
  /\ last.op = "__init__" =>
       \A u \in Units :
         /\ init_health[u] >= 0 => 0 <= health[u] /\ health[u] <= init_health[u]
         /\ init_health[u] < 0 => health[u] = 0
  /\ init_health[0] >= 0 => 0 <= health[0] /\ health[0] <= init_health[0]
  /\ init_health[0] < 0 => health[0] = 0

\* the setter has cut a healed hull back to its initial health
C1_Witness ==
  /\ IsCall("get_damage", 0) /\ last.arg < 0
  /\ init_health[0] = 100 /\ health[0] = 100

\* C2: Soldier.get_damage(value) leaves the soldier's health at exactly the
\* health before the call minus value, unclamped, and changes nothing else of
\* any unit; the reads that follow (is_ready, success) leave it there.
C2_SoldierGetDamageUnclamped ==
  [][ /\ \A i \in Ops :
           (last'.op = "get_damage" /\ last'.unit = i) =>
             /\ health'[i] = health[i] - last'.arg
             /\ \A u \in Units \ {i} : health'[u] = health[u]
             /\ UNCHANGED <<init_health, recharge, last_attack, experience>>
      /\ last'.op \in {"is_ready", "success"} => health' = health
    ]_vars

\* a soldier whose health was driven below 0 by get_damage
C2_Witness ==
  /\ last.op = "get_damage" /\ last.unit \in Ops /\ last.arg > 0
  /\ health[last.unit] < 0

\* C3 as stated: Soldier.attack adds exactly 1 to experience on every call
\* and returns 0.05 + e/100 for the experience e held before the call.
C3_AttackAlwaysIncrements ==
  [][ \A i \in Ops :
        (last'.op = "attack" /\ last'.unit = i) =>
          /\ experience'[i] = experience[i] + 1
          /\ last'.ret = 5 + experience[i]
    ]_vars

\* C3 amended: Soldier.attack adds exactly 1 to experience when it is below
\* 50 and leaves it at 50 when it is 50; it returns 0.05 + e/100 for the
\* experience e held before the call.
C3_AttackIncrementsBelowCap ==
  [][ \A i \in Ops :
        (last'.op = "attack" /\ last'.unit = i) =>
          /\ experience[i] < 50 => experience'[i] = experience[i] + 1
          /\ experience[i] = 50 => experience'[i] = 50
          /\ last'.ret = 5 + experience[i]
    ]_vars

\* an attack by a soldier holding 49 experience: it returned 0.54 and holds 50
C3_Witness ==
  /\ last.op = "attack" /\ last.unit \in Ops
  /\ last.ret = 54 /\ experience[last.unit] = 50

\* C4: 0 <= experience <= 50 in every state, whatever integer the constructor
\* was given, and no call lowers the experience of a soldier.
C4_ExperienceBounded ==
  /\ [](\A i \in Ops : 0 <= experience[i] /\ experience[i] <= 50)
  /\ [][\A i \in Ops : experience'[i] >= experience[i]]_vars

\* a soldier built with experience 51 that attacked at the cap, next to one
\* built with experience -1
C4_Witness ==
  /\ last.op = "attack" /\ last.unit \in Ops
  /\ last.given[last.unit] = 51 /\ last.ret = 55 /\ experience[last.unit] = 50
  /\ \E j \in Ops : last.given[j] = -1 /\ experience[j] = 0

\* C5: Vehicle.get_damage(value) with k >= 1 active operators takes 0.2*value
\* from the operator the random source picks among them and 0.2*value/(k-1)
\* from each other active operator, 0.4*value from the crew in all when
\* k >= 2 and 0.2*value when k = 1, and leaves the hull at the clamped value
\* of hull health - 0.6*value.
C5_CrewDamageSplit ==
  [][ (last'.op = "get_damage" /\ last'.unit = 0 /\ Alive # {}) =>
        LET value == last'.arg
            k == Cardinality(Alive)
            taken(i) == health[i] - health'[i]
            total[n \in 0..NumOps] ==
              IF n = 0 THEN 0 ELSE total[n - 1] + taken(n)
        IN  /\ Len(last'.drawn) = 1
            /\ last'.drawn[1] \in Alive
            /\ 5 * taken(last'.drawn[1]) = value
            /\ \A i \in Alive \ {last'.drawn[1]} : 5 * (k - 1) * taken(i) = value
            /\ 5 * total[NumOps] = IF k >= 2 THEN 2 * value ELSE value
            /\ health'[0] = Clamped(health[0] - (3 * value) \div 5, init_health[0])
    ]_vars

\* a first call get_damage(30) on a vehicle whose operators all started at
\* 100: the picked one is at 94, the others share the second 6 evenly
C5_Witness ==
  /\ IsCall("get_damage", 0) /\ last.arg = 30 /\ calls = 1
  /\ \A i \in Ops : init_health[i] = 100
  /\ Len(last.drawn) = 1
  /\ health[last.drawn[1]] = 94
  /\ \A i \in Ops \ {last.drawn[1]} :
       health[i] < 100 /\ (NumOps - 1) * (100 - health[i]) = 6
  /\ health[0] = Clamped(init_health[0] - 18, init_health[0])

\* C6: Vehicle.get_damage never changes the health of an operator that is
\* inactive at the call; with no active operator it changes only the hull
\* (hull health - 0.6*value, clamped) and asks nothing of the random source.
C6_InactiveOperatorsUntouched ==
  [][ (last'.op = "get_damage" /\ last'.unit = 0) =>
        /\ \A i \in Ops : health[i] <= 0 => health'[i] = health[i]
        /\ Alive = {} =>
             /\ last'.drawn = <<>>
             /\ \A i \in Ops : health'[i] = health[i]
             /\ health'[0] = Clamped(health[0] - (3 * last'.arg) \div 5,
                                     init_health[0])
             /\ UNCHANGED <<init_health, recharge, last_attack, experience>>
    ]_vars

\* get_damage(30) on a vehicle of 100 whose every operator is inactive: the
\* hull is at 82, no draw was made
C6_Witness ==
  /\ IsCall("get_damage", 0) /\ last.arg = 30 /\ last.drawn = <<>>
  /\ init_health[0] = 100 /\ health[0] = 82
  /\ \A i \in Ops : health[i] <= 0

\* C7: Vehicle.is_active holds exactly when the hull health is > 0 and some
\* operator has health > 0: it is false when the hull health is <= 0, and
\* false when every operator is inactive, whatever the hull health.
C7_VehicleIsActive ==
  /\ is_active(0) <=> (health[0] > 0 /\ \E i \in Ops : health[i] > 0)
  /\ health[0] <= 0 => ~is_active(0)
  /\ (\A i \in Ops : health[i] <= 0) => ~is_active(0)

\* the damage passed on by the vehicle has made its last operator inactive
\* while the hull is still positive
C7_Witness ==
  /\ IsCall("get_damage", 0) /\ last.arg > 0 /\ Len(last.drawn) = 1
  /\ health[0] > 0 /\ \A i \in Ops : health[i] <= 0
  /\ ~is_active(0)

\* C8: is_ready(now) returns true exactly when now - L >= recharge, L being
\* the argument of the most recent attack on the unit (0 if none), and changes
\* nothing; attack(now) records last_attack = now, ready or not.
C8_IsReady ==
  /\ [](\A u \in Units : last_attack[u] = recent_attack[u])
  /\ [][ /\ last'.op = "is_ready" =>
              /\ last'.ret =
                   (last'.arg - recent_attack[last'.unit] >= recharge[last'.unit])
              /\ UNCHANGED <<unitVars, recent_attack>>
         /\ last'.op = "attack" => last_attack'[last'.unit] = last'.arg
       ]_vars

\* is_ready asked with a clock behind the last attack of a unit that needs no
\* recharge: not ready
C8_Witness ==
  /\ last.op = "is_ready" /\ last.arg < recent_attack[last.unit]
  /\ recharge[last.unit] = 0 /\ last.ret = FALSE

\* C9 as stated: the success score of a Soldier is
\* 0.5 * (1 + health/initialHealth) * d / 100 with d in [50 + experience, 100]
\* and lies in [0, 1], kept here as a numerator over 20000.
C9_SuccessOfInitialHealthInUnit ==
  last.op = "success" =>
    LET i == last.unit
        d == last.drawn[1]
    IN  /\ d \in (50 + experience[i])..100
        /\ init_health[i] # 0 =>
             last.ret * init_health[i] = (init_health[i] + health[i]) * d * 100
        /\ 0 <= last.ret /\ last.ret <= 20000

\* C9 amended: the success score of a Soldier is
\* 0.5 * (1 + health/100) * d / 100 with d in [50 + experience, 100], the
\* divisor being the constant 100 and not the initial health; it lies in
\* [0, 1] whenever -100 <= health <= 100.
C9_SuccessOfHundred ==
  last.op = "success" =>
    LET i == last.unit
        d == last.drawn[1]
    IN  /\ Len(last.drawn) = 1
        /\ d \in (50 + experience[i])..100
        /\ last.ret = (100 + health[i]) * d
        /\ (-100 <= health[i] /\ health[i] <= 100) =>
             0 <= last.ret /\ last.ret <= 20000

\* the score 0.53 of a soldier of initial health 6 and experience 50
C9_Witness ==
  /\ last.op = "success" /\ init_health[last.unit] = 6 /\ health[last.unit] = 6
  /\ experience[last.unit] = 50 /\ last.ret = 10600

\* C10: a unit that is inactive stays inactive through every attack and every
\* get_damage of a non-negative value, on the unit or on any other unit.
C10_InertForGood ==
  [][ (last'.op = "attack" \/ (last'.op = "get_damage" /\ last'.arg >= 0)) =>
        \A u \in Units : ~is_active(u) => ~is_active(u)'
    ]_vars

\* positive damage taken by a soldier that was inactive already, in a
\* vehicle that stays inactive
C10_Witness ==
  /\ last.op = "get_damage" /\ last.unit \in Ops /\ last.arg > 0
  /\ health[last.unit] <= 0 - last.arg
  /\ ~is_active(0) /\ ~is_active(last.unit)

====
